---- MODULE Spec2Model ----
(***************************************************************************)
(* FleetLedger: a model of the security-and-correctness layer of the       *)
(* application (src/app/utils.py, src/app/auth.py, src/app/main.py,        *)
(* src/fleetledger/app/models.py).                                         *)
(*                                                                         *)
(* The specifications share the variables below:                           *)
(*   Spec         the request handlers of main.py acting on the database   *)
(*                (users, servers) and on the per-browser sessions, one    *)
(*                request at a time;                                       *)
(*   SpecParse    the unit parsers of utils.py applied to free text;       *)
(*   SpecCipher   the module-level cipher construction of utils.py and     *)
(*                encrypt_secret / decrypt_secret / can_encrypt;           *)
(*   SpecPassword the password policy of auth.py and registration;         *)
(*   SpecDates    the contract-end properties of models.py;                *)
(*   SpecStats    the statistics of list_servers and admin_dashboard;      *)
(*   SpecRegister register and toggle_user_active as concurrent requests,  *)
(*                statement by statement;                                  *)
(*   SpecSecrets  management passwords through create_server and           *)
(*                update_server.                                           *)
(*                                                                         *)
(* Python values are modelled as follows.  A str that the code inspects    *)
(* character by character (the parsers' input) is a sequence of one-       *)
(* character strings.  None and exceptions that leave a function are       *)
(* tagged records (NoneV, Raise(e)), so that "returns None" and "raises"   *)
(* are different outcomes.                                                  *)
(***************************************************************************)
EXTENDS Integers, Sequences, FiniteSets, TLC

VARIABLES
    users,          \* table user: sequence of rows, users[i] has id i
    servers,        \* table server: sequence of rows, servers[i] has id i
    sess,           \* request.session of every browser session
    resp,           \* the response to the last request
    selfReg,        \* ALLOW_SELF_REGISTRATION, read once at import
    encKey,         \* os.getenv("ENCRYPTION_KEY"), read once at import
    fernet,         \* utils._f, the module-level cipher (or none)
    arg,            \* argument of the pure function under test; in
                    \* SpecRegister the form and the locals of each request
    call,           \* name of the pure function applied to arg; in
                    \* SpecRegister the statement each request has reached
    ret             \* what that call returned or raised; in SpecRegister
                    \* the status each request was answered with

vars == <<users, servers, sess, resp, selfReg, encKey, fernet, arg, call, ret>>

(***************************************************************************)
(* Bounds of the model.                                                    *)
(***************************************************************************)
MaxLen == 3         \* free texts of every length up to MaxLen are parsed

(***************************************************************************)
(* Python values.                                                          *)
(***************************************************************************)
NoneV == [tag |-> "None"]
Raise(e) == [tag |-> "raise", exc |-> e]
IntV(n) == [tag |-> "int", val |-> n]
\* a float, kept exact: (-1)^neg * num / 10^scale, without trailing zeros
FloatV(neg, num, scale) == [tag |-> "float", neg |-> neg, num |-> num, scale |-> scale]

IsNone(v) == v.tag = "None"
IsRaise(v) == v.tag = "raise"

(***************************************************************************)
(* str helpers: a str is a sequence of characters.                         *)
(***************************************************************************)
Digits == {"0", "1", "2", "5"}
Whitespace == {" "}
Chars == Digits \cup Whitespace \cup {".", ",", "\\", "-", "t", "g", "m", "b", "G", "a"}

DigitVal(c) == CASE c = "0" -> 0 [] c = "1" -> 1 [] c = "2" -> 2 [] c = "5" -> 5

Pow10(k) == CASE k = 0 -> 1 [] k = 1 -> 10 [] k = 2 -> 100 [] k = 3 -> 1000
              [] k = 4 -> 10000 [] k = 5 -> 100000 [] k = 6 -> 1000000

\* str.lower()
LowerChar(c) == IF c = "G" THEN "g" ELSE c
Lower(s) == [i \in 1..Len(s) |-> LowerChar(s[i])]

\* str.replace(",", ".")
ReplaceComma(s) == [i \in 1..Len(s) |-> IF s[i] = "," THEN "." ELSE s[i]]

\* str.strip(): leading and trailing whitespace removed
RECURSIVE LStrip(_)
LStrip(s) == IF s # <<>> /\ Head(s) \in Whitespace THEN LStrip(Tail(s)) ELSE s
RECURSIVE RStrip(_)
RStrip(s) == IF s # <<>> /\ s[Len(s)] \in Whitespace
             THEN RStrip(SubSeq(s, 1, Len(s) - 1)) ELSE s
Strip(s) == RStrip(LStrip(s))

\* length of the longest run of digits of s that starts at position i
RECURSIVE DigitRun(_, _)
DigitRun(s, i) == IF i <= Len(s) /\ s[i] \in Digits THEN 1 + DigitRun(s, i + 1) ELSE 0

\* value of a sequence of digits
RECURSIVE DigitsVal(_)
DigitsVal(s) == IF s = <<>> THEN 0
                ELSE 10 * DigitsVal(SubSeq(s, 1, Len(s) - 1)) + DigitVal(s[Len(s)])

RECURSIVE TrimZeros(_, _)
TrimZeros(num, scale) == IF scale > 0 /\ num % 10 = 0
                         THEN TrimZeros(num \div 10, scale - 1)
                         ELSE <<num, scale>>

MkFloat(neg, num, scale) ==
    LET t == TrimZeros(num, scale)
    IN  FloatV(neg /\ t[1] # 0, t[1], t[2])

(***************************************************************************)
(* float(str): surrounding whitespace is ignored; an optional sign, then   *)
(* digits with an optional point ("5", "5.", ".5", "1.5").  Anything else  *)
(* raises ValueError.  (Exponents, "inf", "nan" and "_" need characters    *)
(* that are not in Chars.)                                                 *)
(***************************************************************************)
FloatOf(str) ==
    LET s    == Strip(str)
        neg  == s # <<>> /\ Head(s) = "-"
        body == IF neg THEN Tail(s) ELSE s
        n1   == DigitRun(body, 1)
        dot  == n1 + 1 <= Len(body) /\ body[n1 + 1] = "."
        n2   == IF dot THEN DigitRun(body, n1 + 2) ELSE 0
        used == n1 + (IF dot THEN 1 + n2 ELSE 0)
    IN  IF used = Len(body) /\ n1 + n2 >= 1
        THEN MkFloat(neg,
                     DigitsVal(SubSeq(body, 1, n1)) * Pow10(n2)
                        + DigitsVal(SubSeq(body, n1 + 2, n1 + 1 + n2)),
                     n2)
        ELSE Raise("ValueError")

\* int(x * factor) for a float x >= 0: truncation
IntOfProduct(x, factor) == IntV((x.num * factor) \div Pow10(x.scale))

(***************************************************************************)
(* re.match(r"([0-9]+(?:[\\.,][0-9]+)?)(<units>)?", v): anchored at the    *)
(* start only.  In the raw string the class [\\.,] holds three characters: *)
(* backslash, point and comma.                                             *)
(***************************************************************************)
SepClass == {"\\", ".", ","}

ReMatch(v, units) ==
    LET n1   == DigitRun(v, 1)
        frac == IF n1 + 1 <= Len(v) /\ v[n1 + 1] \in SepClass
                THEN DigitRun(v, n1 + 2) ELSE 0
        e1   == IF frac >= 1 THEN n1 + 1 + frac ELSE n1
        u    == IF e1 + 2 <= Len(v) THEN SubSeq(v, e1 + 1, e1 + 2) ELSE <<>>
    IN  IF n1 = 0 THEN [ok |-> FALSE]
        ELSE [ok |-> TRUE, g1 |-> SubSeq(v, 1, e1),
              g2 |-> IF u \in units THEN u ELSE <<>>]

RamUnits == {<<"t", "b">>, <<"g", "b">>, <<"m", "b">>}
StorageUnits == {<<"t", "b">>, <<"g", "b">>}

parse_decimal(value) ==
    IF value = <<>> THEN NoneV
    ELSE LET r == FloatOf(Strip(ReplaceComma(value)))
         IN  IF IsRaise(r) THEN NoneV ELSE r

\* parse_ram_mb with the unit defaulting to mb instead of gb
parse_ram_mb_default_mb(value) ==
    IF value = <<>> THEN NoneV
    ELSE LET v == Lower(Strip(value))
             m == ReMatch(v, RamUnits)
         IN  IF ~m.ok THEN NoneV
             ELSE LET number == FloatOf(ReplaceComma(m.g1))
                      unit   == IF m.g2 # <<>> THEN m.g2 ELSE <<"m", "b">>
                  IN  IF IsRaise(number) THEN number
                      ELSE IF unit = <<"t", "b">> THEN IntOfProduct(number, 1024 * 1024)
                      ELSE IF unit = <<"g", "b">> THEN IntOfProduct(number, 1024)
                      ELSE IntOfProduct(number, 1)

parse_ram_mb(value) ==
    IF value = <<>> THEN NoneV
    ELSE LET v == Lower(Strip(value))
             m == ReMatch(v, RamUnits)
         IN  IF ~m.ok THEN NoneV
             ELSE LET number == FloatOf(ReplaceComma(m.g1))
                      unit   == IF m.g2 # <<>> THEN m.g2 ELSE <<"g", "b">>
                  IN  IF IsRaise(number) THEN number
                      ELSE IF unit = <<"t", "b">> THEN IntOfProduct(number, 1024 * 1024)
                      ELSE IF unit = <<"g", "b">> THEN IntOfProduct(number, 1024)
                      ELSE IntOfProduct(number, 1)

\* parse_storage_gb that drops the unit: every number is taken as GB
parse_storage_gb_unit_dropped(value) ==
    IF value = <<>> THEN NoneV
    ELSE LET v == Lower(Strip(value))
             m == ReMatch(v, StorageUnits)
         IN  IF ~m.ok THEN NoneV
             ELSE LET number == FloatOf(ReplaceComma(m.g1))
                  IN  IF IsRaise(number) THEN number
                      ELSE IntOfProduct(number, 1)

parse_storage_gb(value) ==
    IF value = <<>> THEN NoneV
    ELSE LET v == Lower(Strip(value))
             m == ReMatch(v, StorageUnits)
         IN  IF ~m.ok THEN NoneV
             ELSE LET number == FloatOf(ReplaceComma(m.g1))
                      unit   == IF m.g2 # <<>> THEN m.g2 ELSE <<"g", "b">>
                  IN  IF IsRaise(number) THEN number
                      ELSE IF unit = <<"t", "b">> THEN IntOfProduct(number, 1024)
                      ELSE IntOfProduct(number, 1)

(***************************************************************************)
(* Secret cipher (utils.py).  A key-material string is described by what   *)
(* the construction code looks at: its length after strip(), whether it    *)
(* ends with "=", whether Fernet accepts it as a key (url-safe base64 of   *)
(* 32 bytes), and whether the raw string carries surrounding whitespace.   *)
(***************************************************************************)
StrV(s) == [tag |-> "str", text |-> s]
BoolV(b) == [tag |-> "bool", val |-> b]

FernetKeyLen == 44          \* utils.py: len(key_str) >= 44
KeyLens == {0, 7, FernetKeyLen - 1, FernetKeyLen, FernetKeyLen + 1}

KeyStrings ==
    {k \in [len : KeyLens, pad : BOOLEAN, valid : BOOLEAN, ws : BOOLEAN] :
        /\ (k.len = 0 => ~k.pad)
        /\ (k.valid => k.len >= FernetKeyLen - 1)}
KeyMaterials == {NoneV} \cup {[tag |-> "str", key |-> k] : k \in KeyStrings}

\* truthiness of os.getenv("ENCRYPTION_KEY"): set and not the empty string
KeySet(env) == ~IsNone(env) /\ (env.key.len > 0 \/ env.key.ws)

\* str.strip() of the key material
StripKey(k) == [k EXCEPT !.ws = FALSE]

\* key_str.encode(): the string itself is the key
DirectKey(key_str) == [kind |-> "direct", of |-> key_str]
\* base64.urlsafe_b64encode(hashlib.sha256(key_str.encode("utf-8")).digest())
Sha256Key(key_str) == [kind |-> "sha256", of |-> key_str]

\* Fernet(key): ValueError unless the key is url-safe base64 of 32 bytes
FernetNew(key) ==
    IF key.kind = "sha256" \/ key.of.valid
    THEN [tag |-> "Fernet", key |-> key]
    ELSE Raise("ValueError")

\* the construction of _f falling back to the digest when Fernet rejects the key
BuildCipherFallback(env) ==
    IF ~KeySet(env) THEN NoneV
    ELSE LET key_str == StripKey(env.key)
             f       == FernetNew(DirectKey(key_str))
         IN  IF key_str.len >= FernetKeyLen /\ key_str.pad /\ ~IsRaise(f) THEN f
             ELSE FernetNew(Sha256Key(key_str))

\* the module-level construction of _f
BuildCipher(env) ==
    IF ~KeySet(env) THEN NoneV
    ELSE LET key_str    == StripKey(env.key)
             fernet_key == IF key_str.len >= FernetKeyLen /\ key_str.pad
                           THEN DirectKey(key_str)
                           ELSE Sha256Key(key_str)
             f          == FernetNew(fernet_key)
         IN  IF IsRaise(f) THEN NoneV ELSE f

can_encrypt == BoolV(~IsNone(fernet))

\* a Fernet token: authenticated under key, carrying the payload bytes
Token(key, pt, iv) == [tag |-> "token", key |-> key, pt |-> pt, iv |-> iv]

Plaintexts == {"", "s1", "s2"}
NotUtf8 == "\\xff"          \* payload bytes that are not UTF-8
IVs == {1, 2}               \* Fernet's timestamp and random IV

\* encrypt_secret without the "not _f" guard: None has no encrypt
encrypt_secret_no_guard(plaintext, iv) ==
    IF plaintext = "" THEN NoneV
    ELSE IF IsNone(fernet) THEN Raise("AttributeError")
    ELSE Token(fernet.key, plaintext, iv)

\* Fernet.encrypt then token.decode
encrypt_secret(plaintext, iv) ==
    IF plaintext = "" \/ IsNone(fernet) THEN NoneV
    ELSE Token(fernet.key, plaintext, iv)

\* Fernet.decrypt: InvalidToken unless the token authenticates under the key
FernetDecrypt(f, token) ==
    IF token.tag = "token" /\ token.key = f.key
    THEN [tag |-> "bytes", pt |-> token.pt]
    ELSE Raise("InvalidToken")

\* decrypt_secret returning the decrypted bytes without .decode()
decrypt_secret_no_decode(token) ==
    IF IsNone(token) \/ token = StrV("") \/ IsNone(fernet) THEN NoneV
    ELSE LET plaintext == FernetDecrypt(fernet, token)
         IN  IF IsRaise(plaintext) THEN NoneV
             ELSE plaintext

decrypt_secret(token) ==
    IF IsNone(token) \/ token = StrV("") \/ IsNone(fernet) THEN NoneV
    ELSE LET plaintext == FernetDecrypt(fernet, token)
         IN  IF IsRaise(plaintext) THEN NoneV                \* InvalidToken
             ELSE IF plaintext.pt = NotUtf8 THEN NoneV       \* UnicodeDecodeError
             ELSE StrV(plaintext.pt)

(***************************************************************************)
(* CSRF helpers (utils.py).  A session is request.session: the logged-in   *)
(* user's id (0: the key is absent) and the CSRF token ("": absent).       *)
(* secrets.token_urlsafe(32) draws one of Tokens.                          *)
(***************************************************************************)
Sessions == {"s1", "s2"}
Tokens == {"t1", "t2"}
NonAscii == "t\\u00e9"      \* a form value with a non-ASCII character
SuppliedTokens == Tokens \cup {"", NonAscii}
\* csrf_token: str = Form(...): a missing or empty field is refused by the
\* framework (422) before the handler runs
FormTokens == SuppliedTokens \ {""}

EmptySession == [user_id |-> 0, csrf |-> ""]

\* secrets.compare_digest on two str: TypeError unless both are ASCII
compare_digest(a, b) ==
    IF a = NonAscii \/ b = NonAscii THEN Raise("TypeError") ELSE BoolV(a = b)

validate_csrf(session, token) ==
    LET stored == session.csrf
    IN  IF stored = "" \/ token = "" THEN BoolV(FALSE)
        ELSE compare_digest(stored, token)

\* the outcomes of ensure_csrf_token: the session as it leaves it and the token it
\* returns; secrets.token_urlsafe(32) may return any of Tokens
\* ensure_csrf_token storing a new token on every call
ensure_csrf_token_always_new(session) ==
    {[sess |-> [session EXCEPT !.csrf = token], token |-> token] : token \in Tokens}

ensure_csrf_token(session) ==
    IF session.csrf = ""
    THEN {[sess |-> [session EXCEPT !.csrf = token], token |-> token] : token \in Tokens}
    ELSE {[sess |-> session, token |-> session.csrf]}

(***************************************************************************)
(* Authentication (auth.py).  A password is described by what the code and *)
(* bcrypt look at: its length in characters and in UTF-8 bytes, its first  *)
(* BCRYPT_MAX_BYTES bytes (head) and what follows them (tail).  bcrypt     *)
(* hashes the first 72 bytes only, and passlib hands longer passwords to   *)
(* it without an error; the salt is left out of the hash: the model keeps  *)
(* what verify_password decides on.  Form values are decoded from UTF-8,   *)
(* so password.encode("utf-8") does not fail on them.                      *)
(***************************************************************************)
BCRYPT_MAX_BYTES == 72      \* auth.py: BCRYPT_MAX_BYTES

Password(head, tail, chars, bytes) ==
    [head |-> head, tail |-> tail, chars |-> chars, bytes |-> bytes]
ShortPassword(text) == Password(text, "", 3, 3)

Usernames == {"alice", "bob"}
Passwords == {ShortPassword("pw1"), ShortPassword("pw2")}

\* passwords around the limit: 72 and 73 ASCII characters, 37 two-byte
\* characters, and the 73-character one with another last character
PolicyPasswords ==
    { ShortPassword("pw1"),
      Password("a72", "", BCRYPT_MAX_BYTES, BCRYPT_MAX_BYTES),
      Password("b72", "x", BCRYPT_MAX_BYTES + 1, BCRYPT_MAX_BYTES + 1),
      Password("b72", "y", BCRYPT_MAX_BYTES + 1, BCRYPT_MAX_BYTES + 1),
      Password("e36", "e", (BCRYPT_MAX_BYTES + 2) \div 2, BCRYPT_MAX_BYTES + 2) }

hash_password(password) == [scheme |-> "bcrypt", of |-> password.head]
verify_password(plain_password, hashed_password) ==
    hashed_password.of = plain_password.head

\* len(password.encode("utf-8")) > BCRYPT_MAX_BYTES
password_too_long(password) == BoolV(password.bytes > BCRYPT_MAX_BYTES)

\* session.get(User, user_id) returns a row
UserExists(user_id) == user_id \in 1..Len(users)

\* get_current_user without the look at is_active
get_current_user_ignores_active(session) ==
    LET user_id == session.user_id
    IN  IF user_id = 0 THEN [user |-> 0, sess |-> session]
        ELSE IF ~UserExists(user_id) THEN [user |-> 0, sess |-> EmptySession]
             ELSE [user |-> user_id, sess |-> session]

\* returns the current user's id (0: None) and the session as it leaves it
get_current_user(session) ==
    LET user_id == session.user_id
    IN  IF user_id = 0 THEN [user |-> 0, sess |-> session]
        ELSE IF ~UserExists(user_id) \/ ~users[user_id].is_active
             THEN [user |-> 0, sess |-> EmptySession]       \* request.session.clear()
             ELSE [user |-> user_id, sess |-> session]

IsAdmin(user) == user # 0 /\ users[user].is_admin

\* select(User).where(User.username == username).first(): its id, or 0
FindUser(username) ==
    IF \E i \in 1..Len(users) : users[i].username = username
    THEN CHOOSE i \in 1..Len(users) : users[i].username = username
    ELSE 0

(***************************************************************************)
(* Responses.  A request is answered in one step (the whole handler with   *)
(* its dependencies); the response stays in resp until it is delivered.    *)
(* op: the handler; status: the HTTP status (0: no response in flight);    *)
(* csrf: what validate_csrf returned in the request ("none": it was not    *)
(* called, "raise": it raised); shown: the ids of the server rows whose    *)
(* data the response carries; pwd: the decrypted management password in    *)
(* the response; form: the parameters of the request that the properties   *)
(* refer to (login's username and password, the server_id of a request     *)
(* for one server).                                                        *)
(***************************************************************************)
Resp(op, sid, status, csrf, shown, pwd, form) ==
    [op |-> op, sid |-> sid, status |-> status, csrf |-> csrf, shown |-> shown,
     pwd |-> pwd, form |-> form]

NoResp == Resp("none", "s1", 0, "none", {}, NoneV, <<>>)

Config == <<selfReg, encKey, fernet>>
Pure == <<arg, call, ret>>

\* An exception that leaves the handler: the 500 response is sent outside the
\* session middleware, so the session cookie is not rewritten.
ServerError(op, sid, form) ==
    /\ resp' = Resp(op, sid, 500, "raise", {}, NoneV, form)
    /\ UNCHANGED <<users, servers, sess>>

\* An answer that changes nothing but the session
Answer(op, sid, session, status, csrf, shown, pwd, form) ==
    /\ sess' = [sess EXCEPT ![sid] = session]
    /\ resp' = Resp(op, sid, status, csrf, shown, pwd, form)
    /\ UNCHANGED <<users, servers>>

\* the response leaves the server
deliver ==
    /\ resp.status # 0
    /\ resp' = NoResp
    /\ UNCHANGED <<users, servers, sess, Config, Pure>>

(***************************************************************************)
(* Handlers of main.py: registration, login, logout, user management.      *)
(* Each action is one request: the dependencies (get_current_user,         *)
(* require_current_user, require_admin) run first, then the handler body.  *)
(***************************************************************************)
MaxServers == 1     \* rows of table server

\* the registration gate of register_form and register
RegistrationClosed(current_user) ==
    Len(users) > 0 /\ ~selfReg /\ ~IsAdmin(current_user)

register_form(sid) ==
    LET cu == get_current_user(sess[sid])
    IN  /\ resp.status = 0
        /\ IF RegistrationClosed(cu.user)
           THEN Answer("register_form", sid, cu.sess, 303, "none", {}, NoneV, <<>>)
           ELSE \E e \in ensure_csrf_token(cu.sess) : Answer("register_form", sid, e.sess, 200, "none", {}, NoneV, <<>>)
        /\ UNCHANGED <<Config, Pure>>

register(sid, username, password, password_confirm, csrf_token) ==
    LET cu == get_current_user(sess[sid])
        v  == validate_csrf(cu.sess, csrf_token)
        user_count == Len(users)
        error == password # password_confirm \/ FindUser(username) # 0
        user == [username |-> username, password_hash |-> hash_password(password),
                 is_active |-> TRUE, is_admin |-> (user_count = 0)]
    IN  /\ resp.status = 0
        /\ IF IsRaise(v) THEN ServerError("register", sid, <<>>)
           ELSE IF ~v.val
           THEN \E e \in ensure_csrf_token(cu.sess) :
                    Answer("register", sid, e.sess, 400, "false", {}, NoneV, <<>>)
           ELSE IF RegistrationClosed(cu.user) THEN Answer("register", sid, cu.sess, 303, "true", {}, NoneV, <<>>)
           ELSE \E e \in ensure_csrf_token(cu.sess) :
                    IF error THEN Answer("register", sid, e.sess, 400, "true", {}, NoneV, <<>>)
                    ELSE /\ users' = Append(users, user)
                         \* auto-login after registration
                         /\ sess' = [sess EXCEPT ![sid] =
                                        [e.sess EXCEPT !.user_id = Len(users) + 1]]
                         /\ resp' = Resp("register", sid, 303, "true", {}, NoneV, <<>>)
                         /\ UNCHANGED servers
        /\ UNCHANGED <<Config, Pure>>

login_form(sid) ==
    LET cu == get_current_user(sess[sid])
    IN  /\ resp.status = 0
        /\ IF cu.user # 0
           THEN Answer("login_form", sid, cu.sess, 303, "none", {}, NoneV, <<>>)
           ELSE \E e \in ensure_csrf_token(cu.sess) : Answer("login_form", sid, e.sess, 200, "none", {}, NoneV, <<>>)
        /\ UNCHANGED <<Config, Pure>>

login(sid, username, password, csrf_token) ==
    LET v    == validate_csrf(sess[sid], csrf_token)
        user == FindUser(username)
        error == IF user = 0 \/ ~verify_password(password, users[user].password_hash)
                 THEN TRUE
                 ELSE ~users[user].is_active
        form == <<username, password>>
    IN  /\ resp.status = 0
        /\ UNCHANGED <<users, servers, Config, Pure>>
        /\ IF IsRaise(v) THEN resp' = Resp("login", sid, 500, "raise", {}, NoneV, form) /\ UNCHANGED sess
           ELSE \E e \in ensure_csrf_token(sess[sid]) :
                    IF ~v.val
                    THEN /\ sess' = [sess EXCEPT ![sid] = e.sess]
                         /\ resp' = Resp("login", sid, 400, "false", {}, NoneV, form)
                    ELSE IF error
                    THEN /\ sess' = [sess EXCEPT ![sid] = e.sess]
                         /\ resp' = Resp("login", sid, 400, "true", {}, NoneV, form)
                    ELSE /\ sess' = [sess EXCEPT ![sid] = [e.sess EXCEPT !.user_id = user]]
                         /\ resp' = Resp("login", sid, 303, "true", {}, NoneV, form)

logout(sid) ==
    /\ resp.status = 0
    /\ Answer("logout", sid, EmptySession, 303, "none", {}, NoneV, <<>>)
    /\ UNCHANGED <<Config, Pure>>

\* require_current_user / require_admin: the status of the HTTPException they
\* raise, or 0 when the request goes on to the handler
require_current_user(current_user) == IF current_user = 0 THEN 303 ELSE 0
require_admin(current_user) ==
    IF current_user = 0 THEN 303 ELSE IF ~users[current_user].is_admin THEN 403 ELSE 0

list_users(sid) ==
    LET cu   == get_current_user(sess[sid])
        deny == require_admin(cu.user)
    IN  /\ resp.status = 0
        /\ IF deny # 0
           THEN Answer("list_users", sid, cu.sess, deny, "none", {}, NoneV, <<>>)
           ELSE \E e \in ensure_csrf_token(cu.sess) : Answer("list_users", sid, e.sess, 200, "none", {}, NoneV, <<>>)
        /\ UNCHANGED <<Config, Pure>>

toggle_user_active(sid, user_id, csrf_token) ==
    LET cu   == get_current_user(sess[sid])
        deny == require_admin(cu.user)
        v    == validate_csrf(cu.sess, csrf_token)
    IN  /\ resp.status = 0
        /\ IF deny # 0 THEN Answer("toggle_user_active", sid, cu.sess, deny, "none", {}, NoneV, <<>>)
           ELSE IF IsRaise(v) THEN ServerError("toggle_user_active", sid, <<>>)
           ELSE IF ~v.val THEN Answer("toggle_user_active", sid, cu.sess, 400, "false", {}, NoneV, <<>>)
           ELSE IF ~UserExists(user_id) \/ user_id = cu.user
           THEN Answer("toggle_user_active", sid, cu.sess, 303, "true", {}, NoneV, <<>>)
           ELSE /\ users' = [users EXCEPT ![user_id].is_active = ~users[user_id].is_active]
                /\ sess' = [sess EXCEPT ![sid] = cu.sess]
                /\ resp' = Resp("toggle_user_active", sid, 303, "true", {}, NoneV, <<>>)
                /\ UNCHANGED servers
        /\ UNCHANGED <<Config, Pure>>

(***************************************************************************)
(* Handlers of main.py: the admin dashboard and the per-user server views. *)
(* A server row keeps its owner, the archived flag and the encrypted        *)
(* management password.                                                    *)
(***************************************************************************)
ServerIds == 1..(MaxServers + 1)        \* path parameter server_id

\* session.get(Server, server_id) returns a row
ServerExists(server_id) == server_id \in 1..Len(servers)

\* select(Server).where(Server.archived == archived).where(Server.owner_id == owner)
OwnServers(owner, archived) ==
    {i \in 1..Len(servers) : servers[i].archived = archived /\ servers[i].owner_id = owner}

\* the rows admin_dashboard aggregates: every non-archived server of every user;
\* its counts, monthly totals, currencies and provider_stats are computed from them
DashboardServers == {i \in 1..Len(servers) : ~servers[i].archived}

admin_dashboard(sid) ==
    LET cu   == get_current_user(sess[sid])
        deny == require_admin(cu.user)
    IN  /\ resp.status = 0
        /\ IF deny # 0
           THEN Answer("admin_dashboard", sid, cu.sess, deny, "none", {}, NoneV, <<>>)
           ELSE Answer("admin_dashboard", sid, cu.sess, 200, "none", DashboardServers, NoneV, <<>>)
        /\ UNCHANGED <<Config, Pure>>

\* list_servers and server_map run the same query; no CSRF token in the page
list_servers(sid) ==
    LET cu   == get_current_user(sess[sid])
        deny == require_current_user(cu.user)
    IN  /\ resp.status = 0
        /\ IF deny # 0
           THEN Answer("list_servers", sid, cu.sess, deny, "none", {}, NoneV, <<>>)
           ELSE Answer("list_servers", sid, cu.sess, 200, "none", OwnServers(cu.user, FALSE), NoneV, <<>>)
        /\ UNCHANGED <<Config, Pure>>

server_map(sid) ==
    LET cu   == get_current_user(sess[sid])
        deny == require_current_user(cu.user)
    IN  /\ resp.status = 0
        /\ IF deny # 0
           THEN Answer("server_map", sid, cu.sess, deny, "none", {}, NoneV, <<>>)
           ELSE Answer("server_map", sid, cu.sess, 200, "none", OwnServers(cu.user, FALSE), NoneV, <<>>)
        /\ UNCHANGED <<Config, Pure>>

archived_servers(sid) ==
    LET cu   == get_current_user(sess[sid])
        deny == require_current_user(cu.user)
    IN  /\ resp.status = 0
        /\ IF deny # 0
           THEN Answer("archived_servers", sid, cu.sess, deny, "none", {}, NoneV, <<>>)
           ELSE \E e \in ensure_csrf_token(cu.sess) :
                    Answer("archived_servers", sid, e.sess, 200, "none", OwnServers(cu.user, TRUE), NoneV, <<>>)
        /\ UNCHANGED <<Config, Pure>>

new_server_form(sid) ==
    LET cu   == get_current_user(sess[sid])
        deny == require_current_user(cu.user)
    IN  /\ resp.status = 0
        /\ IF deny # 0
           THEN Answer("new_server_form", sid, cu.sess, deny, "none", {}, NoneV, <<>>)
           ELSE \E e \in ensure_csrf_token(cu.sess) : Answer("new_server_form", sid, e.sess, 200, "none", {}, NoneV, <<>>)
        /\ UNCHANGED <<Config, Pure>>

\* the ownership test reduced to "not server"
NotOwnedMissing(server_id, current_user) == ~ServerExists(server_id)

\* "not server or server.owner_id != current_user.id"
NotOwned(server_id, current_user) ==
    ~ServerExists(server_id) \/ servers[server_id].owner_id # current_user

server_detail(sid, server_id) ==
    LET cu   == get_current_user(sess[sid])
        deny == require_current_user(cu.user)
    IN  /\ resp.status = 0
        /\ IF deny # 0 THEN Answer("server_detail", sid, cu.sess, deny, "none", {}, NoneV, <<server_id>>)
           ELSE IF NotOwned(server_id, cu.user)
           THEN Answer("server_detail", sid, cu.sess, 303, "none", {}, NoneV, <<server_id>>)
           ELSE \E e \in ensure_csrf_token(cu.sess) :
                    Answer("server_detail", sid, e.sess, 200, "none", {server_id},
                           decrypt_secret(servers[server_id].mgmt_password_encrypted),
                           <<server_id>>)
        /\ UNCHANGED <<Config, Pure>>

edit_server_form(sid, server_id) ==
    LET cu   == get_current_user(sess[sid])
        deny == require_current_user(cu.user)
    IN  /\ resp.status = 0
        /\ IF deny # 0 THEN Answer("edit_server_form", sid, cu.sess, deny, "none", {}, NoneV, <<server_id>>)
           ELSE IF NotOwned(server_id, cu.user)
           THEN Answer("edit_server_form", sid, cu.sess, 303, "none", {}, NoneV, <<server_id>>)
           ELSE \E e \in ensure_csrf_token(cu.sess) : Answer("edit_server_form", sid, e.sess, 200, "none", {server_id}, NoneV, <<server_id>>)
        /\ UNCHANGED <<Config, Pure>>

create_server(sid, mgmt_password, csrf_token, iv) ==
    LET cu   == get_current_user(sess[sid])
        deny == require_current_user(cu.user)
        v    == validate_csrf(cu.sess, csrf_token)
        enc_pwd == IF mgmt_password # "" THEN encrypt_secret(mgmt_password, iv) ELSE NoneV
        server == [owner_id |-> cu.user, archived |-> FALSE,
                   mgmt_password_encrypted |-> enc_pwd]
    IN  /\ resp.status = 0
        /\ IF deny # 0 THEN Answer("create_server", sid, cu.sess, deny, "none", {}, NoneV, <<>>)
           ELSE IF IsRaise(v) THEN ServerError("create_server", sid, <<>>)
           ELSE IF ~v.val THEN Answer("create_server", sid, cu.sess, 400, "false", {}, NoneV, <<>>)
           ELSE /\ Len(servers) < MaxServers
                /\ servers' = Append(servers, server)
                /\ sess' = [sess EXCEPT ![sid] = cu.sess]
                /\ resp' = Resp("create_server", sid, 303, "true", {}, NoneV, <<>>)
                /\ UNCHANGED users
        /\ UNCHANGED <<Config, Pure>>

\* update_server assigning encrypt_secret(mgmt_password) whatever was submitted
StoredPasswordAlwaysSet(old, mgmt_password, iv) == encrypt_secret(mgmt_password, iv)

\* only update mgmt password if a non-empty value was submitted
StoredPassword(old, mgmt_password, iv) ==
    IF mgmt_password # "" THEN encrypt_secret(mgmt_password, iv) ELSE old

update_server(sid, server_id, mgmt_password, csrf_token, iv) ==
    LET cu   == get_current_user(sess[sid])
        deny == require_current_user(cu.user)
        v    == validate_csrf(cu.sess, csrf_token)
        old  == servers[server_id]
        pwd  == StoredPassword(old.mgmt_password_encrypted, mgmt_password, iv)
    IN  /\ resp.status = 0
        /\ IF deny # 0 THEN Answer("update_server", sid, cu.sess, deny, "none", {}, NoneV, <<server_id>>)
           ELSE IF NotOwned(server_id, cu.user)
           THEN Answer("update_server", sid, cu.sess, 303, "none", {}, NoneV, <<server_id>>)
           ELSE IF IsRaise(v) THEN ServerError("update_server", sid, <<server_id>>)
           ELSE IF ~v.val THEN Answer("update_server", sid, cu.sess, 400, "false", {}, NoneV, <<server_id>>)
           ELSE /\ servers' = [servers EXCEPT ![server_id].mgmt_password_encrypted = pwd]
                /\ sess' = [sess EXCEPT ![sid] = cu.sess]
                /\ resp' = Resp("update_server", sid, 303, "true", {}, NoneV, <<server_id>>)
                /\ UNCHANGED users
        /\ UNCHANGED <<Config, Pure>>

\* the body shared by archive_server and unarchive_server
SetArchived(op, sid, server_id, csrf_token, archived) ==
    LET cu   == get_current_user(sess[sid])
        deny == require_current_user(cu.user)
        v    == validate_csrf(cu.sess, csrf_token)
    IN  /\ resp.status = 0
        /\ IF deny # 0 THEN Answer(op, sid, cu.sess, deny, "none", {}, NoneV, <<server_id>>)
           ELSE IF IsRaise(v) THEN ServerError(op, sid, <<server_id>>)
           ELSE IF ~v.val THEN Answer(op, sid, cu.sess, 400, "false", {}, NoneV, <<server_id>>)
           ELSE IF NotOwned(server_id, cu.user)
           THEN Answer(op, sid, cu.sess, 303, "true", {}, NoneV, <<server_id>>)
           ELSE /\ servers' = [servers EXCEPT ![server_id].archived = archived]
                /\ sess' = [sess EXCEPT ![sid] = cu.sess]
                /\ resp' = Resp(op, sid, 303, "true", {}, NoneV, <<server_id>>)
                /\ UNCHANGED users
        /\ UNCHANGED <<Config, Pure>>

archive_server(sid, server_id, csrf_token) ==
    SetArchived("archive_server", sid, server_id, csrf_token, TRUE)

unarchive_server(sid, server_id, csrf_token) ==
    SetArchived("unarchive_server", sid, server_id, csrf_token, FALSE)

(***************************************************************************)
(* Spec: the application serving requests.  The configuration is read once *)
(* at import; the database and the sessions start empty.                   *)
(***************************************************************************)
Passphrase == [tag |-> "str", key |-> [len |-> 7, pad |-> FALSE, valid |-> FALSE, ws |-> FALSE]]
RegisterPasswords == {ShortPassword("pw1")}
MgmtPasswords == {"", "s1"}
WebIVs == {1}
UserIds == 1..(Cardinality(Usernames) + 1)      \* path parameter user_id

PureIdle == arg = <<>> /\ call = "idle" /\ ret = NoneV

Init ==
    /\ users = <<>>
    /\ servers = <<>>
    /\ sess = [s \in Sessions |-> EmptySession]
    /\ resp = NoResp
    /\ selfReg \in BOOLEAN
    /\ encKey = Passphrase
    /\ fernet = BuildCipher(encKey)
    /\ PureIdle

Next ==
    \/ deliver
    \/ \E sid \in Sessions :
        \/ register_form(sid)
        \/ login_form(sid)
        \/ logout(sid)
        \/ list_users(sid)
        \/ admin_dashboard(sid)
        \/ list_servers(sid)
        \/ server_map(sid)
        \/ archived_servers(sid)
        \/ new_server_form(sid)
        \/ \E server_id \in ServerIds :
              \/ server_detail(sid, server_id)
              \/ edit_server_form(sid, server_id)
        \/ \E csrf_token \in FormTokens :
              \/ \E username \in Usernames :
                    \/ \E password \in RegisterPasswords, password_confirm \in Passwords :
                          register(sid, username, password, password_confirm, csrf_token)
                    \/ \E password \in Passwords :
                          login(sid, username, password, csrf_token)
              \/ \E user_id \in UserIds : toggle_user_active(sid, user_id, csrf_token)
              \/ \E mgmt_password \in MgmtPasswords, iv \in WebIVs :
                    \/ create_server(sid, mgmt_password, csrf_token, iv)
                    \/ \E server_id \in ServerIds :
                          update_server(sid, server_id, mgmt_password, csrf_token, iv)
              \/ \E server_id \in ServerIds :
                    \/ archive_server(sid, server_id, csrf_token)
                    \/ unarchive_server(sid, server_id, csrf_token)

Spec == Init /\ [][Next]_vars

(***************************************************************************)
(* SpecParse: a parser of utils.py applied to a free text.                 *)
(***************************************************************************)
Examples ==
    { <<"5", "1", "2", "m", "b">>, <<"1", ".", "5", "t", "b">>, <<"1", ",", "5", "g", "b">>,
      <<"1", "\\", "5", "g", "b">>, <<" ", "2", "G", "b", " ">>, <<"2", "5", ".", "5", "m", "b">>,
      <<"-", "1", ".", "5", "g", "b">>, <<"1", "0", "2", "5", "m", "b">>,
      <<"2", "t", "b", "a", "a">>, <<"a", "b", "c">> }

Texts == UNION {[1..n -> Chars] : n \in 0..MaxLen} \cup Examples

WebIdle ==
    /\ users = <<>>
    /\ servers = <<>>
    /\ sess = [s \in Sessions |-> EmptySession]
    /\ resp = NoResp
    /\ selfReg = FALSE

Web == <<users, servers, sess, resp>>

InitParse ==
    /\ WebIdle
    /\ encKey = NoneV
    /\ fernet = BuildCipher(encKey)
    /\ arg \in Texts
    /\ call = "idle"
    /\ ret = NoneV

call_parse_decimal ==
    /\ call = "idle"
    /\ call' = "parse_decimal"
    /\ ret' = parse_decimal(arg)
    /\ UNCHANGED <<Web, Config, arg>>

call_parse_ram_mb ==
    /\ call = "idle"
    /\ call' = "parse_ram_mb"
    /\ ret' = parse_ram_mb(arg)
    /\ UNCHANGED <<Web, Config, arg>>

call_parse_storage_gb ==
    /\ call = "idle"
    /\ call' = "parse_storage_gb"
    /\ ret' = parse_storage_gb(arg)
    /\ UNCHANGED <<Web, Config, arg>>

NextParse == call_parse_decimal \/ call_parse_ram_mb \/ call_parse_storage_gb

SpecParse == InitParse /\ [][NextParse]_vars

(***************************************************************************)
(* SpecCipher: the cipher is built from ENCRYPTION_KEY at import, then     *)
(* can_encrypt, encrypt_secret and decrypt_secret are called.              *)
(***************************************************************************)
PlainArg(text) == [tag |-> "plain", text |-> text]

\* the keys of the ciphers that some key material builds
CipherKeys == {BuildCipher(env).key : env \in {e \in KeyMaterials : ~IsNone(BuildCipher(e))}}

TokenArgs ==
    {NoneV, StrV(""), StrV("garbage")}
        \cup {Token(key, pt, 1) : key \in CipherKeys, pt \in {"s1", NotUtf8}}

CipherArgs == {PlainArg(text) : text \in Plaintexts} \cup TokenArgs

InitCipher ==
    /\ WebIdle
    /\ encKey \in KeyMaterials
    /\ fernet = BuildCipher(encKey)
    /\ arg \in CipherArgs
    /\ call = "idle"
    /\ ret = NoneV

call_can_encrypt ==
    /\ call = "idle"
    /\ call' = "can_encrypt"
    /\ ret' = can_encrypt
    /\ UNCHANGED <<Web, Config, arg>>

call_encrypt_secret ==
    /\ call = "idle"
    /\ arg.tag = "plain"
    /\ \E iv \in IVs :
          /\ call' = "encrypt_secret"
          /\ ret' = encrypt_secret(arg.text, iv)
    /\ UNCHANGED <<Web, Config, arg>>

call_decrypt_secret ==
    /\ call = "idle"
    /\ arg.tag # "plain"
    /\ call' = "decrypt_secret"
    /\ ret' = decrypt_secret(arg)
    /\ UNCHANGED <<Web, Config, arg>>

\* decrypt_secret applied to what encrypt_secret returned
call_decrypt_encrypted ==
    /\ call = "encrypt_secret"
    /\ call' = "decrypt_secret(encrypt_secret)"
    /\ ret' = decrypt_secret(ret)
    /\ UNCHANGED <<Web, Config, arg>>

NextCipher ==
    call_can_encrypt \/ call_encrypt_secret \/ call_decrypt_secret \/ call_decrypt_encrypted

SpecCipher == InitCipher /\ [][NextCipher]_vars

(***************************************************************************)
(* Properties of the request handlers, stated for Spec.  In a step that    *)
(* answers a request, resp' is the response and the unprimed variables are *)
(* the state the request found.                                            *)
(***************************************************************************)
Answered == resp'.status # 0

\* the user get_current_user resolves for the request being answered
CurrentUser == get_current_user(sess[resp'.sid]).user

\* the session of the request lost or gained its user_id
UserIdChanged == sess'[resp'.sid].user_id # sess[resp'.sid].user_id

\* C1 (as stated): no request changes the database or the session's user_id
\* unless validate_csrf returned true in it, and a request in which
\* validate_csrf returned false is answered 400 with nothing changed.
C1_MutationNeedsToken ==
    [][Answered =>
          /\ users' # users \/ servers' # servers \/ UserIdChanged
                => resp'.csrf = "true"
          /\ resp'.csrf = "false"
                => resp'.status = 400 /\ users' = users /\ servers' = servers
                   /\ ~UserIdChanged]_vars

\* C2 (as stated): validate_csrf(session, token) is a boolean for every
\* session and every supplied token: false when no token is stored or none
\* is supplied, otherwise true exactly when the two are equal.
C2_ValidateIsEquality ==
    \A s \in Sessions, token \in SuppliedTokens :
        validate_csrf(sess[s], token)
            = BoolV(sess[s].csrf # "" /\ token # "" /\ token = sess[s].csrf)

\* ensure_csrf_token on any session the application has produced: with a
\* token stored it returns that token and leaves the session as it is, with
\* none it stores one new token and returns it; what it returns passes
\* validate_csrf on the session it leaves
EnsureIsIdempotent ==
    \A s \in Sessions : \A e \in ensure_csrf_token(sess[s]) :
        /\ IF sess[s].csrf # ""
           THEN e.sess = sess[s] /\ e.token = sess[s].csrf
           ELSE e.token \in Tokens /\ e.sess = [sess[s] EXCEPT !.csrf = e.token]
        /\ validate_csrf(e.sess, e.token) = BoolV(TRUE)
        /\ \A e2 \in ensure_csrf_token(e.sess) : e2 = e

\* the request cleared its session before a token could be stored again:
\* logout, or get_current_user on a session whose user is inactive or gone
SessionCleared ==
    \/ resp'.op = "logout"
    \/ /\ resp'.op # "login"
       /\ sess[resp'.sid].user_id # 0
       /\ get_current_user(sess[resp'.sid]).sess = EmptySession

\* C3 (as stated): once a session stores a token, every later
\* ensure_csrf_token call on that session returns that same token: a stored
\* token is never replaced by a different one.
C3_TokenNeverReplaced ==
    [][\A s \in Sessions :
          sess[s].csrf # "" /\ sess'[s].csrf # "" => sess'[s].csrf = sess[s].csrf]_vars

\* C3 (amended): a session holds one token, ensure_csrf_token generates one
\* only when none is stored, returns the stored one otherwise, is idempotent,
\* and its result passes validate_csrf; the stored token of a session changes
\* only in a request that cleared the session (logout, or get_current_user
\* finding the user inactive or missing).
C3_TokenKeptUntilCleared ==
    /\ []EnsureIsIdempotent
    /\ [][\A s \in Sessions :
            sess[s].csrf # "" /\ sess'[s].csrf # sess[s].csrf
                => s = resp'.sid /\ SessionCleared]_vars

\* a logged-in session that stored t2 received a page with a form: the page
\* carries the stored token
C3_Witness ==
    /\ resp.op = "new_server_form" /\ resp.status = 200
    /\ sess[resp.sid].csrf = "t2"
    /\ sess[resp.sid].user_id = 2
    /\ \E s \in Sessions : s # resp.sid /\ sess[s].csrf = "t1"

\* what every request leaves alone whoever sends it: rows are not deleted,
\* owner_id never changes, a row changes only for its owner, a new row
\* belongs to the current user, and a decrypted password is the owner's
OwnerOnlyWrites ==
    /\ Len(servers') >= Len(servers)
    /\ \A i \in 1..Len(servers) :
          /\ servers'[i].owner_id = servers[i].owner_id
          /\ servers'[i] # servers[i] => servers[i].owner_id = CurrentUser
    /\ \A i \in (Len(servers) + 1)..Len(servers') : servers'[i].owner_id = CurrentUser
    /\ resp'.pwd # NoneV =>
          \E i \in 1..Len(servers) :
              /\ resp'.shown = {i} /\ servers[i].owner_id = CurrentUser
              /\ resp'.pwd = decrypt_secret(servers[i].mgmt_password_encrypted)

\* C4 (as stated): a request by anyone but the owner, admin or not, leaves a
\* server unchanged and reveals none of its fields; owner_id never changes.
C4_PrivateToOwner ==
    [][Answered =>
          /\ OwnerOnlyWrites
          /\ \A i \in resp'.shown : servers[i].owner_id = CurrentUser]_vars

\* C4 (amended): as stated for every handler but admin_dashboard, whose
\* response to an admin is computed from the non-archived servers of every
\* user.
C4_PrivateButDashboard ==
    [][Answered =>
          /\ OwnerOnlyWrites
          /\ \A i \in resp'.shown :
                \/ servers[i].owner_id = CurrentUser
                \/ /\ resp'.op = "admin_dashboard"
                   /\ IsAdmin(CurrentUser)
                   /\ ~servers[i].archived]_vars

\* an admin asked for the detail page of another user's server and was
\* redirected without any of its data
C4_Witness ==
    /\ resp.op = "server_detail" /\ resp.form = <<1>>
    /\ resp.status = 303 /\ resp.shown = {} /\ resp.pwd = NoneV
    /\ Len(servers) >= 1
    /\ LET user_id == sess[resp.sid].user_id
       IN  /\ user_id # 0
           /\ users[user_id].is_admin /\ users[user_id].is_active
           /\ servers[1].owner_id # user_id

\* C5 (as stated): login stores a user's id in the session only when the
\* user exists, the password verifies and the user is active; otherwise the
\* answer is 400 and the session's user_id is unchanged.
C5_LoginDecision ==
    [][resp'.op = "login" =>
          LET user == FindUser(resp'.form[1])
              ok   == /\ user # 0
                      /\ verify_password(resp'.form[2], users[user].password_hash)
                      /\ users[user].is_active
          IN  /\ UserIdChanged => ok /\ sess'[resp'.sid].user_id = user
              /\ ~ok => resp'.status = 400 /\ ~UserIdChanged]_vars
(***************************************************************************)
(* Properties of the secret cipher, stated for SpecCipher.                 *)
(***************************************************************************)
RoundTrip == call = "decrypt_secret(encrypt_secret)"

\* C6 (as stated): when the cipher is enabled, decrypt_secret(encrypt_secret(s))
\* is s for every plaintext s.
C6_RoundTripAll ==
    RoundTrip /\ ~IsNone(fernet) => ret = StrV(arg.text)

\* C6 (amended): when the cipher is enabled, decrypt_secret(encrypt_secret(s))
\* is s for every non-empty plaintext s; for the empty plaintext encrypt_secret
\* returns None and so does decrypt_secret of it.
C6_RoundTripNonEmpty ==
    RoundTrip /\ ~IsNone(fernet) =>
        IF arg.text = "" THEN ret = NoneV ELSE ret = StrV(arg.text)

\* a non-empty secret has gone through encrypt_secret and decrypt_secret under
\* a key that was used directly
C6_Witness ==
    /\ RoundTrip
    /\ ~IsNone(fernet) /\ fernet.key.kind = "direct"
    /\ arg = PlainArg("s1")
    /\ ret = StrV("s1")

\* C7: without key material the cipher is disabled: can_encrypt() is false and
\* encrypt_secret and decrypt_secret return None (they do not raise) for every
\* plaintext and every token.
C7_NoKeyDisabled ==
    ~KeySet(encKey) =>
        /\ IsNone(fernet)
        /\ can_encrypt = BoolV(FALSE)
        /\ call = "can_encrypt" => ret = BoolV(FALSE)
        /\ call \in {"encrypt_secret", "decrypt_secret", "decrypt_secret(encrypt_secret)"}
              => ret = NoneV

\* without key material, encrypt_secret was called on a non-empty plaintext
C7_Witness ==
    /\ encKey = NoneV
    /\ call = "encrypt_secret"
    /\ arg = PlainArg("s1")
    /\ ret = NoneV

Parsers == {"parse_decimal", "parse_ram_mb", "parse_storage_gb"}

\* C9 (as stated): parse_decimal, parse_ram_mb and parse_storage_gb never
\* raise; an input the pattern matches yields a number.
C9_NeverRaises ==
    call \in Parsers =>
        /\ ~IsRaise(ret)
        /\ call = "parse_ram_mb" /\ ReMatch(Lower(Strip(arg)), RamUnits).ok
              => ret.tag = "int"
        /\ call = "parse_storage_gb" /\ ReMatch(Lower(Strip(arg)), StorageUnits).ok
              => ret.tag = "int"

AllDigits(s) == s # <<>> /\ \A i \in 1..Len(s) : s[i] \in Digits

\* MB per unit; no unit means gb
MbPerUnit(unit) ==
    IF unit = <<"t", "b">> THEN 1048576 ELSE IF unit = <<"m", "b">> THEN 1 ELSE 1024

\* the readings of text as <number><optional unit>: digits, optionally a
\* point or comma and more digits, then nothing or a unit in any case
RamReadings(text) ==
    {r \in [i : 1..Len(text), j : 1..Len(text)] :
        LET frac == SubSeq(text, r.i + 2, r.j)
            unit == SubSeq(text, r.j + 1, Len(text))
        IN  /\ AllDigits(SubSeq(text, 1, r.i))
            /\ \/ r.j = r.i
               \/ r.j >= r.i + 2 /\ text[r.i + 1] \in {".", ","} /\ AllDigits(frac)
            /\ unit = <<>> \/ Lower(unit) \in RamUnits}

\* the number of a reading converted to MB and truncated
RamMb(text, r) ==
    LET whole == DigitsVal(SubSeq(text, 1, r.i))
        frac  == SubSeq(text, r.i + 2, r.j)
        unit  == Lower(SubSeq(text, r.j + 1, Len(text)))
    IN  ((whole * Pow10(Len(frac)) + DigitsVal(frac)) * MbPerUnit(unit))
            \div Pow10(Len(frac))

Str1(a) == <<a>>
Str3(a, b, c) == <<a, b, c>>

\* C10: parse_ram_mb(text) is, for text of the form <number><optional unit>,
\* the number converted to MB (tb x1024x1024, gb or no unit x1024, mb x1) and
\* truncated; "2" and "2gb" give 2048, "1tb" 1048576, "512mb" 512; a text
\* with no leading number ("abc", a negative number) gives None; an integer
\* result is never negative.
C10_ParseRamMb ==
    call = "parse_ram_mb" =>
        /\ \A r \in RamReadings(arg) : ret = IntV(RamMb(arg, r))
        /\ arg = Str1("2") => ret = IntV(2048)
        /\ arg = Str3("2", "g", "b") => ret = IntV(2048)
        /\ arg = Str3("1", "t", "b") => ret = IntV(1048576)
        /\ arg = <<"5", "1", "2", "m", "b">> => ret = IntV(512)
        /\ arg = Str3("a", "b", "c") => ret = NoneV
        /\ LStrip(arg) = <<>> \/ Head(LStrip(arg)) \notin Digits => ret = NoneV
        /\ ret.tag = "int" => ret.val >= 0

\* a fractional number of terabytes was converted and truncated
C10_Witness ==
    /\ call = "parse_ram_mb"
    /\ arg = <<"1", ".", "5", "t", "b">>
    /\ ret = IntV(1572864)

\* GB per unit; no unit means gb
GbPerUnit(unit) == IF unit = <<"t", "b">> THEN 1024 ELSE 1

\* the readings of text as <number><optional unit> with unit gb or tb
StorageReadings(text) ==
    {r \in [i : 1..Len(text), j : 1..Len(text)] :
        LET frac == SubSeq(text, r.i + 2, r.j)
            unit == SubSeq(text, r.j + 1, Len(text))
        IN  /\ AllDigits(SubSeq(text, 1, r.i))
            /\ \/ r.j = r.i
               \/ r.j >= r.i + 2 /\ text[r.i + 1] \in {".", ","} /\ AllDigits(frac)
            /\ unit = <<>> \/ Lower(unit) \in StorageUnits}

\* the number of a reading converted to GB and truncated
StorageGb(text, r) ==
    LET whole == DigitsVal(SubSeq(text, 1, r.i))
        frac  == SubSeq(text, r.i + 2, r.j)
        unit  == Lower(SubSeq(text, r.j + 1, Len(text)))
    IN  ((whole * Pow10(Len(frac)) + DigitsVal(frac)) * GbPerUnit(unit))
            \div Pow10(Len(frac))

\* C11: parse_storage_gb(text) is, for text of the form <number><optional
\* unit> with unit gb or tb, the number converted to GB (tb x1024, gb or no
\* unit x1) and truncated; "1.5tb" gives 1536; the empty text and a text
\* that does not start with a number give None.
C11_ParseStorageGb ==
    call = "parse_storage_gb" =>
        /\ \A r \in StorageReadings(arg) : ret = IntV(StorageGb(arg, r))
        /\ arg = <<"1", ".", "5", "t", "b">> => ret = IntV(1536)
        /\ arg = <<>> => ret = NoneV
        /\ LStrip(arg) = <<>> \/ Head(LStrip(arg)) \notin Digits => ret = NoneV

\* a whole number of terabytes was converted to GB
C11_Witness ==
    /\ call = "parse_storage_gb"
    /\ arg = Str3("2", "t", "b")
    /\ ret = IntV(2048)

(***************************************************************************)
(* SpecPassword: registration and login with passwords around bcrypt's     *)
(* 72-byte limit, and password_too_long applied to them.                   *)
(***************************************************************************)
InitPassword ==
    /\ WebIdle
    /\ encKey = NoneV
    /\ fernet = BuildCipher(encKey)
    /\ arg \in PolicyPasswords
    /\ call = "idle"
    /\ ret = NoneV

call_password_too_long ==
    /\ call = "idle"
    /\ call' = "password_too_long"
    /\ ret' = password_too_long(arg)
    /\ UNCHANGED <<Web, Config, arg>>

NextPassword ==
    \/ deliver
    \/ call_password_too_long
    \/ \E sid \in Sessions :
        \/ register_form(sid)
        \/ \E csrf_token \in Tokens, username \in Usernames :
              \/ \E password_confirm \in {arg, ShortPassword("pw2")} :
                    register(sid, username, arg, password_confirm, csrf_token)
              \/ \E password \in PolicyPasswords :
                    login(sid, username, password, csrf_token)

SpecPassword == InitPassword /\ [][NextPassword]_vars

\* C12 (as stated): password_too_long(p) is true exactly for the passwords
\* of more than 72 UTF-8 bytes, and no user is ever created from such a
\* password: register rejects it before hash_password is called.
C12_OverlongRejected ==
    /\ call = "password_too_long" => ret = BoolV(arg.bytes > 72)
    /\ \A i \in 1..Len(users) : \A p \in PolicyPasswords :
          p.bytes > 72 => users[i].password_hash # hash_password(p)

(***************************************************************************)
(* SpecDates: the contract-end properties of Server (models.py).  A date   *)
(* is its day number; date.today() is an input of every property.          *)
(***************************************************************************)
MaxDay == 40                \* contract_end ranges over the days 0..MaxDay
SoonDays == 30              \* models.py: 0 <= days <= 30

DateV(day) == [tag |-> "date", day |-> day]
ContractEnds == {NoneV} \cup {DateV(day) : day \in 0..MaxDay}
Todays == {0, 1, 5, 9}

days_until_contract_end(self, today) ==
    IF IsNone(self.contract_end) THEN NoneV
    ELSE IntV(self.contract_end.day - today)

is_expired(self, today) ==
    BoolV(~IsNone(self.contract_end) /\ self.contract_end.day < today)

\* is_expiring_soon with the window open at its far end: 0 <= days < 30
is_expiring_soon_open(self, today) ==
    LET days == days_until_contract_end(self, today)
    IN  BoolV(~IsNone(days) /\ 0 <= days.val /\ days.val < SoonDays)

is_expiring_soon(self, today) ==
    LET days == days_until_contract_end(self, today)
    IN  BoolV(~IsNone(days) /\ 0 <= days.val /\ days.val <= SoonDays)

InitDates ==
    /\ WebIdle
    /\ encKey = NoneV
    /\ fernet = BuildCipher(encKey)
    /\ arg \in [self : [contract_end : ContractEnds], today : Todays]
    /\ call = "idle"
    /\ ret = NoneV

call_days_until_contract_end ==
    /\ call = "idle"
    /\ call' = "days_until_contract_end"
    /\ ret' = days_until_contract_end(arg.self, arg.today)
    /\ UNCHANGED <<Web, Config, arg>>

call_is_expired ==
    /\ call = "idle"
    /\ call' = "is_expired"
    /\ ret' = is_expired(arg.self, arg.today)
    /\ UNCHANGED <<Web, Config, arg>>

call_is_expiring_soon ==
    /\ call = "idle"
    /\ call' = "is_expiring_soon"
    /\ ret' = is_expiring_soon(arg.self, arg.today)
    /\ UNCHANGED <<Web, Config, arg>>

NextDates == call_days_until_contract_end \/ call_is_expired \/ call_is_expiring_soon

SpecDates == InitDates /\ [][NextDates]_vars

\* contract_end is set and lies n days after today (before, for n < 0)
EndsIn(n) == ~IsNone(arg.self.contract_end) /\ arg.self.contract_end.day = arg.today + n

\* C13: is_expired is true iff contract_end is set and before today;
\* is_expiring_soon is true iff contract_end is set and 0 to 30 days ahead
\* (true at 0 and at 30 days, false at 31 days and for yesterday); without
\* contract_end both are false; they are never true together.
C13_ExpiryFlags ==
    /\ call = "is_expired" =>
          /\ ret.val <=> \E n \in 1..MaxDay : EndsIn(-n)
          /\ EndsIn(-1) => ret = BoolV(TRUE)
          /\ IsNone(arg.self.contract_end) => ret = BoolV(FALSE)
    /\ call = "is_expiring_soon" =>
          /\ ret.val <=> \E n \in 0..30 : EndsIn(n)
          /\ EndsIn(0) \/ EndsIn(30) => ret = BoolV(TRUE)
          /\ EndsIn(31) \/ EndsIn(-1) => ret = BoolV(FALSE)
          /\ IsNone(arg.self.contract_end) => ret = BoolV(FALSE)
    /\ call # "idle" =>
          ~(is_expired(arg.self, arg.today).val /\ is_expiring_soon(arg.self, arg.today).val)

\* a contract that ends exactly 30 days from today is expiring soon
C13_Witness ==
    /\ call = "is_expiring_soon"
    /\ EndsIn(30)
    /\ ret = BoolV(TRUE)

(***************************************************************************)
(* SpecStats: the statistics that list_servers and admin_dashboard compute *)
(* from the rows their query returns (main.py).  A row keeps the columns   *)
(* the statistics read.  Prices are whole amounts; a monthly total is kept *)
(* exact as a number of twelfths, so that price / 12.0 loses nothing.      *)
(***************************************************************************)
MaxRows == 3                \* rows of table server in SpecStats

Row(owner_id, archived, provider, billing_period, price, currency, contract_end) ==
    [owner_id |-> owner_id, archived |-> archived, provider |-> provider,
     billing_period |-> billing_period, price |-> price, currency |-> currency,
     contract_end |-> contract_end]

StatsToday == 5             \* date.today() while the statistics are computed

RowPool ==
    { Row(1, FALSE, "ovh", "monthly", 10, "EUR", NoneV),
      Row(1, FALSE, "ovh", "yearly", 120, "EUR", DateV(StatsToday + SoonDays)),
      Row(1, FALSE, "hetzner", "other", 5, "USD", DateV(StatsToday - 1)),
      Row(1, FALSE, "", "monthly", 0, "USD", DateV(StatsToday)),
      Row(2, FALSE, "", "yearly", 7, "", DateV(StatsToday + SoonDays + 1)),
      Row(2, FALSE, "hetzner", "monthly", 10, "EUR", DateV(StatsToday - 1)),
      Row(1, TRUE, "ovh", "yearly", 24, "USD", DateV(StatsToday + 1)) }

TwelfthsV(n) == [tag |-> "float", twelfths |-> n]

\* monthly_total += s.price / 12.0  or  monthly_total += s.price
AddPrice(monthly_total, s) ==
    IF s.billing_period = "yearly"
    THEN TwelfthsV(monthly_total.twelfths + s.price)
    ELSE TwelfthsV(monthly_total.twelfths + 12 * s.price)

\* the loop over servers that fills monthly_total and currencies
RECURSIVE MonthlyLoop(_, _, _)
MonthlyLoop(rows, monthly_total, currencies) ==
    IF rows = <<>> THEN [monthly_total |-> monthly_total, currencies |-> currencies]
    ELSE LET s == Head(rows)
         IN  IF s.price = 0 THEN MonthlyLoop(Tail(rows), monthly_total, currencies)
             ELSE MonthlyLoop(Tail(rows), AddPrice(monthly_total, s),
                              IF s.currency # "" THEN currencies \cup {s.currency}
                              ELSE currencies)

\* sum(1 for s in servers if s.is_expiring_soon), and the same for is_expired
CountSoon(rows, today) ==
    Cardinality({i \in 1..Len(rows) : is_expiring_soon(rows[i], today).val})
CountExpired(rows, today) ==
    Cardinality({i \in 1..Len(rows) : is_expired(rows[i], today).val})

\* the stats dict with every price counted as a monthly price
StatsNoYearly(rows, today) ==
    LET RECURSIVE Total(_)
        Total(r) == IF r = <<>> THEN 0 ELSE 12 * Head(r).price + Total(Tail(r))
        loop == MonthlyLoop(rows, TwelfthsV(0), {})
    IN  [total_servers |-> Len(rows),
         expiring_soon |-> CountSoon(rows, today),
         expired |-> CountExpired(rows, today),
         monthly_total |-> TwelfthsV(Total(rows)),
         monthly_currency |-> IF Cardinality(loop.currencies) = 1
                              THEN StrV(CHOOSE c \in loop.currencies : TRUE) ELSE NoneV,
         mixed_currencies |-> Cardinality(loop.currencies) > 1,
         currencies |-> loop.currencies]

\* the stats dict of list_servers and admin_dashboard (without total_users);
\* currencies is the local set the two currency entries are computed from
Stats(rows, today) ==
    LET loop == MonthlyLoop(rows, TwelfthsV(0), {})
    IN  [total_servers |-> Len(rows),
         expiring_soon |-> CountSoon(rows, today),
         expired |-> CountExpired(rows, today),
         monthly_total |-> loop.monthly_total,
         monthly_currency |-> IF Cardinality(loop.currencies) = 1
                              THEN StrV(CHOOSE c \in loop.currencies : TRUE) ELSE NoneV,
         mixed_currencies |-> Cardinality(loop.currencies) > 1,
         currencies |-> loop.currencies]

\* provider_stats[provider] as it is created
NewBucket ==
    [count |-> 0, monthly_total |-> TwelfthsV(0), expiring_soon |-> 0, expired |-> 0,
     currency_set |-> {}]

\* s.provider or "Unknown"
ProviderOf(s) == IF s.provider # "" THEN s.provider ELSE "Unknown"

\* one round of the provider loop for row s
AddToBucket(ps, s, today) ==
    [count |-> ps.count + 1,
     monthly_total |-> IF s.price # 0 THEN AddPrice(ps.monthly_total, s)
                       ELSE ps.monthly_total,
     expiring_soon |-> ps.expiring_soon + (IF is_expiring_soon(s, today).val THEN 1 ELSE 0),
     expired |-> ps.expired + (IF is_expired(s, today).val THEN 1 ELSE 0),
     currency_set |-> IF s.price # 0 /\ s.currency # ""
                      THEN ps.currency_set \cup {s.currency} ELSE ps.currency_set]

\* the provider loop leaving out the rows without a price
RECURSIVE ProviderLoopPricedOnly(_, _, _)
ProviderLoopPricedOnly(rows, today, provider_stats) ==
    IF rows = <<>> THEN provider_stats
    ELSE LET s        == Head(rows)
             provider == ProviderOf(s)
             known    == IF provider \in DOMAIN provider_stats THEN provider_stats
                         ELSE provider_stats @@ (provider :> NewBucket)
         IN  IF s.price = 0 THEN ProviderLoopPricedOnly(Tail(rows), today, provider_stats)
             ELSE ProviderLoopPricedOnly(Tail(rows), today,
                      [known EXCEPT ![provider] = AddToBucket(known[provider], s, today)])

\* the loop of admin_dashboard that fills provider_stats
RECURSIVE ProviderLoop(_, _, _)
ProviderLoop(rows, today, provider_stats) ==
    IF rows = <<>> THEN provider_stats
    ELSE LET s        == Head(rows)
             provider == ProviderOf(s)
             known    == IF provider \in DOMAIN provider_stats THEN provider_stats
                         ELSE provider_stats @@ (provider :> NewBucket)
         IN  ProviderLoop(Tail(rows), today,
                 [known EXCEPT ![provider] = AddToBucket(known[provider], s, today)])

NoBuckets == [provider \in {} |-> NewBucket]

\* select(Server).where(Server.archived == False)
NotArchivedRows(rows) == SelectSeq(rows, LAMBDA s : ~s.archived)
\* ... .where(Server.owner_id == current_user.id)
OwnRows(rows, current_user) == SelectSeq(rows, LAMBDA s : ~s.archived /\ s.owner_id = current_user)

RowSeqs == UNION {[1..n -> RowPool] : n \in 0..MaxRows}

InitStats ==
    /\ WebIdle
    /\ encKey = NoneV
    /\ fernet = BuildCipher(encKey)
    /\ arg \in [rows : RowSeqs, current_user : {1, 2}]
    /\ call = "idle"
    /\ ret = NoneV

call_list_servers_stats ==
    /\ call = "idle"
    /\ call' = "list_servers"
    /\ ret' = [stats |-> Stats(OwnRows(arg.rows, arg.current_user), StatsToday)]
    /\ UNCHANGED <<Web, Config, arg>>

call_admin_dashboard_stats ==
    /\ call = "idle"
    /\ call' = "admin_dashboard"
    /\ LET rows == NotArchivedRows(arg.rows)
       IN  ret' = [stats |-> Stats(rows, StatsToday),
                   provider_stats |-> ProviderLoop(rows, StatsToday, NoBuckets)]
    /\ UNCHANGED <<Web, Config, arg>>

NextStats == call_list_servers_stats \/ call_admin_dashboard_stats

SpecStats == InitStats /\ [][NextStats]_vars

\* ---- claims about the statistics -------------------------------------------

\* the rows a finished call has aggregated, as indices into arg.rows
Counted ==
    {i \in 1..Len(arg.rows) :
        /\ ~arg.rows[i].archived
        /\ call = "list_servers" => arg.rows[i].owner_id = arg.current_user}
Priced(idx) == {i \in idx : arg.rows[i].price # 0}

\* the monthly equivalent of row i, in twelfths of a currency unit
MonthlyTwelfths(i) ==
    IF arg.rows[i].billing_period = "yearly" THEN arg.rows[i].price
    ELSE 12 * arg.rows[i].price

RECURSIVE SumTwelfths(_)
SumTwelfths(idx) ==
    IF idx = {} THEN 0
    ELSE LET i == CHOOSE k \in idx : TRUE
         IN  MonthlyTwelfths(i) + SumTwelfths(idx \ {i})

CodesOf(idx) == {arg.rows[i].currency : i \in Priced(idx)} \ {""}

\* C14: the dashboard's monthly total is the sum, over the counted rows with a
\* non-zero price, of price/12 for a yearly row and of the price for any other
\* row; the currency set is the set of currency codes of those rows;
\* monthly_currency is reported exactly when that set has one member and
\* mixed_currencies exactly when it has more than one.  {10 EUR monthly,
\* 120 EUR yearly} gives 20, not mixed, EUR; adding a USD row gives mixed and
\* no common currency.
C14_MonthlyAggregate ==
    call \in {"list_servers", "admin_dashboard"} =>
        /\ ret.stats.monthly_total = TwelfthsV(SumTwelfths(Priced(Counted)))
        /\ ret.stats.currencies = CodesOf(Counted)
        /\ \A c \in CodesOf(Counted) :
               ret.stats.monthly_currency = StrV(c) <=> CodesOf(Counted) = {c}
        /\ ret.stats.monthly_currency # NoneV <=> Cardinality(CodesOf(Counted)) = 1
        /\ ret.stats.mixed_currencies <=> Cardinality(CodesOf(Counted)) > 1
        /\ ( /\ call = "admin_dashboard"
             /\ arg.rows = << Row(1, FALSE, "ovh", "monthly", 10, "EUR", NoneV),
                              Row(1, FALSE, "ovh", "yearly", 120, "EUR",
                                  DateV(StatsToday + SoonDays)) >> )
           => /\ ret.stats.monthly_total = TwelfthsV(12 * 20)
              /\ ~ret.stats.mixed_currencies
              /\ ret.stats.monthly_currency = StrV("EUR")
        /\ ( /\ call = "admin_dashboard"
             /\ arg.rows = << Row(1, FALSE, "ovh", "monthly", 10, "EUR", NoneV),
                              Row(1, FALSE, "ovh", "yearly", 120, "EUR",
                                  DateV(StatsToday + SoonDays)),
                              Row(1, FALSE, "hetzner", "other", 5, "USD",
                                  DateV(StatsToday - 1)) >> )
           => /\ ret.stats.mixed_currencies
              /\ ret.stats.monthly_currency = NoneV

\* list_servers has aggregated a user's yearly, monthly and unpriced rows
C14_Witness ==
    /\ call = "list_servers"
    /\ arg.current_user = 2
    /\ Cardinality(Counted) = 2
    /\ \E i \in Counted : arg.rows[i].billing_period = "yearly"
    /\ \E i \in Counted : arg.rows[i].billing_period = "monthly"
    /\ \E i \in 1..Len(arg.rows) : i \notin Counted
    /\ ret.stats.monthly_total = TwelfthsV(7 + 120)
    /\ ret.stats.monthly_currency = StrV("EUR")

\* the counted rows of one provider bucket
InBucket(provider) == {i \in Counted : ProviderOf(arg.rows[i]) = provider}

RECURSIVE SumOver(_, _, _)
SumOver(f, keys, field) ==
    IF keys = {} THEN 0
    ELSE LET k == CHOOSE x \in keys : TRUE
         IN  (IF field = "monthly_total" THEN f[k].monthly_total.twelfths ELSE f[k][field])
             + SumOver(f, keys \ {k}, field)

Request(username, password, password_confirm, csrf_token, session) ==
    [username |-> username, password |-> password, password_confirm |-> password_confirm,
     csrf_token |-> csrf_token, session |-> session, current_user |-> 0, user_count |-> 0]

NoRequest == Request("", ShortPassword(""), ShortPassword(""), "", EmptySession)

InitRegister ==
    /\ users = <<>>
    /\ servers = <<>>
    /\ sess = [s \in Sessions |-> EmptySession]
    /\ resp = NoResp
    /\ selfReg \in BOOLEAN
    /\ encKey = NoneV
    /\ fernet = BuildCipher(encKey)
    /\ arg = [s \in Sessions |-> NoRequest]
    /\ call = [s \in Sessions |-> "idle"]
    /\ ret = [s \in Sessions |-> 0]

\* the request is answered: the browser stores the session cookie
Finish(sid, session, status) ==
    /\ call' = [call EXCEPT ![sid] = "idle"]
    /\ ret' = [ret EXCEPT ![sid] = status]
    /\ sess' = [sess EXCEPT ![sid] = session]
    /\ arg' = [arg EXCEPT ![sid] = NoRequest]

\* an exception leaves the handler: 500, the cookie is not rewritten
Fail(sid) ==
    /\ call' = [call EXCEPT ![sid] = "idle"]
    /\ ret' = [ret EXCEPT ![sid] = 500]
    /\ arg' = [arg EXCEPT ![sid] = NoRequest]
    /\ UNCHANGED sess

\* GET /register, answered in one step
register_form_request(sid) == call[sid] = "idle" /\ register_form(sid)

\* the request arrives and the dependency get_current_user runs
register_get_current_user(sid, username, password, password_confirm, csrf_token) ==
    LET cu == get_current_user(sess[sid])
    IN  /\ call[sid] = "idle"
        /\ call' = [call EXCEPT ![sid] = "validate_csrf"]
        /\ arg' = [arg EXCEPT ![sid] =
                      [Request(username, password, password_confirm, csrf_token, cu.sess)
                          EXCEPT !.current_user = cu.user]]
        /\ UNCHANGED <<Web, Config, ret>>

\* validate_csrf, user_count = len(select(User)) and the registration gate
register_user_count(sid) ==
    LET r == arg[sid]
        v == validate_csrf(r.session, r.csrf_token)
        user_count == Len(users)
    IN  /\ call[sid] = "validate_csrf"
        /\ IF IsRaise(v) THEN Fail(sid)
           ELSE IF ~v.val
           THEN \E e \in ensure_csrf_token(r.session) : Finish(sid, e.sess, 400)
           ELSE IF user_count > 0 /\ ~selfReg /\ ~IsAdmin(r.current_user)
           THEN Finish(sid, r.session, 303)
           ELSE /\ call' = [call EXCEPT ![sid] = "existing"]
                /\ arg' = [arg EXCEPT ![sid].user_count = user_count]
                /\ UNCHANGED <<sess, ret>>
        /\ UNCHANGED <<users, servers, resp, Config>>

\* the password comparison, the lookup of the username, ensure_csrf_token
register_existing(sid) ==
    LET r == arg[sid]
        error == r.password # r.password_confirm \/ FindUser(r.username) # 0
    IN  /\ call[sid] = "existing"
        /\ \E e \in ensure_csrf_token(r.session) :
              IF error THEN Finish(sid, e.sess, 400)
              ELSE /\ call' = [call EXCEPT ![sid] = "commit"]
                   /\ arg' = [arg EXCEPT ![sid].session = e.sess]
                   /\ UNCHANGED <<sess, ret>>
        /\ UNCHANGED <<users, servers, resp, Config>>

\* session.add(user); session.commit(); the auto-login.  username is unique:
\* the INSERT of a name that is taken by now raises IntegrityError
register_commit(sid) ==
    LET r == arg[sid]
        user == [username |-> r.username, password_hash |-> hash_password(r.password),
                 is_active |-> TRUE, is_admin |-> (r.user_count = 0)]
    IN  /\ call[sid] = "commit"
        /\ IF FindUser(r.username) # 0
           THEN Fail(sid) /\ UNCHANGED users
           ELSE /\ users' = Append(users, user)
                /\ Finish(sid, [r.session EXCEPT !.user_id = Len(users) + 1], 303)
        /\ UNCHANGED <<servers, resp, Config>>

\* a POST /users/{user_id}/toggle-active request with its locals
ToggleRequest(user_id, csrf_token, session) ==
    [user_id |-> user_id, csrf_token |-> csrf_token, session |-> session,
     current_user |-> 0, is_active |-> FALSE]

\* the request arrives and the dependency require_admin runs
toggle_require_admin(sid, user_id, csrf_token) ==
    LET cu   == get_current_user(sess[sid])
        deny == require_admin(cu.user)
    IN  /\ call[sid] = "idle"
        /\ IF deny # 0 THEN Finish(sid, cu.sess, deny)
           ELSE /\ call' = [call EXCEPT ![sid] = "toggle_validate_csrf"]
                /\ arg' = [arg EXCEPT ![sid] =
                              [ToggleRequest(user_id, csrf_token, cu.sess)
                                  EXCEPT !.current_user = cu.user]]
                /\ UNCHANGED <<sess, ret>>
        /\ UNCHANGED <<users, servers, resp, Config>>

\* validate_csrf, session.get(User, user_id) and the two early returns
toggle_get_user(sid) ==
    LET r == arg[sid]
        v == validate_csrf(r.session, r.csrf_token)
    IN  /\ call[sid] = "toggle_validate_csrf"
        /\ IF IsRaise(v) THEN Fail(sid)
           ELSE IF ~v.val THEN Finish(sid, r.session, 400)
           ELSE IF ~UserExists(r.user_id) \/ r.user_id = r.current_user
           THEN Finish(sid, r.session, 303)
           ELSE /\ call' = [call EXCEPT ![sid] = "toggle_commit"]
                /\ arg' = [arg EXCEPT ![sid].is_active = users[r.user_id].is_active]
                /\ UNCHANGED <<sess, ret>>
        /\ UNCHANGED <<users, servers, resp, Config>>

\* user.is_active = not user.is_active; session.commit()
toggle_commit(sid) ==
    LET r == arg[sid]
    IN  /\ call[sid] = "toggle_commit"
        /\ users' = [users EXCEPT ![r.user_id].is_active = ~r.is_active]
        /\ Finish(sid, r.session, 303)
        /\ UNCHANGED <<servers, resp, Config>>

NextRegister ==
    \/ deliver
    \/ \E sid \in Sessions :
        \/ register_form_request(sid)
        \/ register_user_count(sid)
        \/ register_existing(sid)
        \/ register_commit(sid)
        \/ toggle_get_user(sid)
        \/ toggle_commit(sid)
        \/ \E csrf_token \in Tokens :
              \/ \E username \in Usernames :
                    register_get_current_user(sid, username, ShortPassword("pw1"),
                                              ShortPassword("pw1"), csrf_token)
              \/ \E user_id \in 1..Cardinality(Usernames) :
                    toggle_require_admin(sid, user_id, csrf_token)

SpecRegister == InitRegister /\ [][NextRegister]_vars

\* the request that commits in this step
Committing(sid) == call[sid] = "commit" /\ call'[sid] = "idle" /\ Len(users') = Len(users) + 1

\* C16: under any interleaving of register requests exactly the first user
\* created is made an administrator by registration; every user created when a
\* user exists already is no administrator and, with self-registration off, is
\* created only by a request whose logged-in user is an administrator.
C16_FirstUserIsAdmin ==
    [][ \A sid \in Sessions : Committing(sid) =>
            /\ users'[Len(users')].is_admin <=> Len(users) = 0
            /\ (Len(users) > 0 /\ ~selfReg) => IsAdmin(arg[sid].current_user) ]_vars

\* two users registered, both administrators
C16_TwoAdmins == Len(users) = 2 /\ users[1].is_admin /\ users[2].is_admin

\* ---- claims about deactivated users ----------------------------------------

\* the handlers behind require_current_user or require_admin
AuthenticatedOps ==
    {"list_users", "toggle_user_active", "admin_dashboard", "list_servers", "server_map",
     "archived_servers", "new_server_form", "create_server", "server_detail",
     "edit_server_form", "update_server", "archive_server", "unarchive_server"}

\* what get_current_user returns for every session there is
CurrentUserRule ==
    \A sid \in Sessions :
        LET session == sess[sid]
            cu == get_current_user(session)
        IN  /\ session.user_id = 0 => cu.user = 0 /\ cu.sess = session
            /\ (session.user_id # 0 /\ UserExists(session.user_id)
                    /\ users[session.user_id].is_active)
                   => cu.user = session.user_id /\ cu.sess = session
            /\ (session.user_id # 0 /\ (~UserExists(session.user_id)
                    \/ ~users[session.user_id].is_active))
                   => cu.user = 0 /\ cu.sess = EmptySession

\* the session of the request being answered carries a deactivated user
StaleRequest ==
    /\ Answered
    /\ sess[resp'.sid].user_id # 0
    /\ ~users[sess[resp'.sid].user_id].is_active

\* a request of a deactivated user's session is treated as anonymous: behind
\* require_current_user or require_admin it is redirected, changes nothing and
\* shows nothing, and every handler that asks for the current user clears the
\* session
StaleRequestRefused ==
    StaleRequest =>
        /\ resp'.op \in AuthenticatedOps =>
              /\ resp'.status = 303
              /\ resp'.shown = {} /\ resp'.pwd = NoneV
              /\ users' = users /\ servers' = servers
              /\ sess'[resp'.sid] = EmptySession
        /\ resp'.op \notin {"login", "logout"} =>
              sess'[resp'.sid].user_id # sess[resp'.sid].user_id

\* a user is reactivated while a session still carries that user
ReactivatedWithSession ==
    \E u \in 1..Len(users) :
        /\ ~users[u].is_active /\ users'[u].is_active
        /\ \E sid \in Sessions : sess'[sid].user_id = u

SecretPasswords == {"", "s1", "s2"}

InitSecrets ==
    /\ WebIdle
    /\ encKey \in {NoneV, Passphrase}
    /\ fernet = BuildCipher(encKey)
    /\ PureIdle

NextSecrets ==
    \/ deliver
    \/ register_form("s1")
    \/ \E csrf_token \in Tokens :
          \/ register("s1", "alice", ShortPassword("pw1"), ShortPassword("pw1"), csrf_token)
          \/ \E mgmt_password \in SecretPasswords, iv \in IVs :
                \/ create_server("s1", mgmt_password, csrf_token, iv)
                \/ \E server_id \in ServerIds :
                      update_server("s1", server_id, mgmt_password, csrf_token, iv)

SpecSecrets == InitSecrets /\ [][NextSecrets]_vars

\* the step is an update_server request with an empty mgmt_password
EmptyPasswordUpdate(server_id) ==
    \E sid \in Sessions, csrf_token \in Tokens, iv \in IVs :
        update_server(sid, server_id, "", csrf_token, iv)

\* what table server may hold as mgmt_password_encrypted
StoredSecretsEncrypted ==
    \A i \in 1..Len(servers) :
        LET stored == servers[i].mgmt_password_encrypted
        IN  /\ \/ IsNone(stored)
               \/ \E plaintext \in SecretPasswords \ {""}, iv \in IVs :
                      /\ stored = encrypt_secret(plaintext, iv)
                      /\ decrypt_secret(stored) = StrV(plaintext)
            /\ \A plaintext \in SecretPasswords : stored # StrV(plaintext)

\* C18: an update_server with an empty mgmt_password leaves the server's
\* mgmt_password_encrypted as it was, and after any sequence of create_server
\* and update_server requests the stored value is absent or an output of
\* encrypt_secret, never the cleartext.
C18_PasswordKeptEncrypted ==
    /\ []StoredSecretsEncrypted
    /\ [][ \A server_id \in 1..Len(servers) :
              EmptyPasswordUpdate(server_id) =>
                  servers'[server_id].mgmt_password_encrypted
                      = servers[server_id].mgmt_password_encrypted ]_vars

\* an accepted update of a server whose stored password is not what create_server
\* stored first
C18_Witness ==
    /\ ~IsNone(fernet)
    /\ Len(servers) = 1
    /\ servers[1].mgmt_password_encrypted = encrypt_secret("s2", 2)
    /\ resp.op = "update_server" /\ resp.status = 303 /\ resp.csrf = "true"

\* ---- claims about the administrators ---------------------------------------

\* the toggle_user_active request that commits in this step
Toggling(sid) == call[sid] = "toggle_commit" /\ call'[sid] = "idle"

ActiveAdminExists ==
    Len(users) > 0 => \E u \in 1..Len(users) : users[u].is_admin /\ users[u].is_active

\* C19: toggle_user_active never changes is_active of the administrator who
\* performs it, and after any sequence and any interleaving of register and
\* toggle_user_active requests, as soon as a user exists there is a user who is
\* both administrator and active.
C19_NoAdminLockout ==
    /\ []ActiveAdminExists
    /\ [][ \A sid \in Sessions : Toggling(sid) =>
              users'[arg[sid].current_user].is_active
                  = users[arg[sid].current_user].is_active ]_vars

\* every user is deactivated
C19_LockedOut == Len(users) = 2 /\ \A u \in 1..2 : ~users[u].is_active

====
